---- MODULE Spec2Model ----
(***************************************************************************)
(* Model of the venom protocol executors: the DNS executor                 *)
(* (executors/dns/dns.go) and the RADIUS executor (package radius).  A     *)
(* behaviour of Spec is one invocation of Run of one of the two            *)
(* executors; Run is cut at its blocking network exchanges, so a state     *)
(* between two actions is an exchange in flight.  SpecCodec is the RADIUS  *)
(* attribute encoder on its own, SpecConc is concurrent invocations of     *)
(* Run and calls of GetDefaultAssertions.                                  *)
(*                                                                         *)
(* Go strings are TLA+ strings where the code only compares or copies      *)
(* them; a formatted message (fmt.Sprintf, fmt.Errorf, err.Error()) is the *)
(* tuple of its parts, so the empty string "" of an Err field is <<>>.     *)
(***************************************************************************)
EXTENDS Integers, Sequences, FiniteSets, TLC

VARIABLES
    pc,        \* position of the invocation: "idle", "udp", "tcp", "xchg", "done"
    exec,      \* which executor's Run was invoked: "none", "dns", "radius"
    step,      \* the venom.TestStep handed to Run
    e,         \* the decoded, defaulted Executor value (local e of Run)
    result,    \* the local Result value of Run
    ret,       \* what Run returned: [result, err]
    now,       \* the monotonic clock; two reads of it never give the same time
    start,     \* local start := time.Now()
    deadline,  \* deadline of the context made by context.WithTimeout
    response,  \* local response (DNS: UDP response; RADIUS: unused before return)
    rtt,       \* local rtt of the DNS exchange
    sent,      \* the network exchanges Run has begun, oldest first, each with
               \* what the network made of it once it has returned
    parent,    \* the context the caller handed to Run: whether it has been
               \* cancelled, when, and during which exchange of the Run
    codec,     \* one attribute on its way through addAttribute and back through
               \* the extraction of the response's attributes
    calls,     \* concurrent invocations of Run: the locals of each
    asserted   \* the last call of GetDefaultAssertions: executor and return value

\* The state of the one invocation of Run.
runVars == <<pc, exec, step, e, result, ret, now, start, deadline, response, rtt, sent, parent>>

vars == <<pc, exec, step, e, result, ret, now, start, deadline, response, rtt, sent, parent,
          codec, calls, asserted>>

(***************************************************************************)
(* Bounds of the model.                                                    *)
(***************************************************************************)
MaxTimeout == 2     \* explicit timeouts in the descriptors are 1..MaxTimeout
MaxCpu == 1         \* a clock read is 1..MaxCpu ticks after the previous one
MaxMsgId == 2       \* DNS message identifiers are 1..MaxMsgId

(***************************************************************************)
(* Dynamically typed values of a venom.TestStep (map[string]interface{}).   *)
(***************************************************************************)
Absent == [t |-> "absent", s |-> "", n |-> 0]
StrV(x) == [t |-> "string", s |-> x, n |-> 0]
IntV(x) == [t |-> "int", s |-> "", n |-> x]

NoErr == <<>>
NoResult == <<>>
NoVal == <<>>

\* mapstructure.Decode of one field into a Go string: a missing key leaves the
\* zero value, a string is copied, any other kind is an error.
DecodeString(field, v) ==
    IF v.t \in {"absent", "string"}
    THEN [ok |-> TRUE, s |-> v.s, err |-> NoErr]
    ELSE [ok |-> FALSE, s |-> "",
          err |-> <<"'", field, "' expected type 'string', got unconvertible type '", v.t, "'">>]

\* mapstructure.Decode of one field into a Go int (no weak typing: a string
\* is not converted).
DecodeInt(field, v) ==
    IF v.t \in {"absent", "int"}
    THEN [ok |-> TRUE, n |-> v.n, err |-> NoErr]
    ELSE [ok |-> FALSE, n |-> 0,
          err |-> <<"'", field, "' expected type 'int', got unconvertible type '", v.t, "'">>]

Max(a, b) == IF a >= b THEN a ELSE b

\* A Run that hands a failure recorded in the Result back as its error.
ReturnResult_ErrAsError(res) ==
    IF res.Err # NoErr THEN [result |-> NoResult, err |-> res.Err]
    ELSE [result |-> <<res>>, err |-> NoErr]

\* "return result, nil" of both executors.
ReturnResult(res) == [result |-> <<res>>, err |-> NoErr]

\* "return nil, err" of both executors.
HardFailure(err) == [result |-> NoResult, err |-> err]

(***************************************************************************)
(* The network.  An exchange begun at time t0 under a context whose        *)
(* deadline is d either gets a response or a network error at a time in    *)
(* t0..d, or ends with the context's error when the deadline passes.       *)
(***************************************************************************)
ErrDeadline == <<"context deadline exceeded">>
ErrNetwork == <<"read udp: connection refused">>

ExchangeTimes(t0, d) == t0..d

\* The error of a context that was cancelled.
ErrCanceled == <<"context canceled">>

\* The caller's context before the caller cancels it.
NotCancelled == [cancelled |-> FALSE, at |-> 0, during |-> 0]

(***************************************************************************)
(* DNS executor                                                            *)
(***************************************************************************)
DefaultQType == "A"
DefaultTimeout == 5
ErrServerMandatory == <<"server is mandatory for DNS executor">>

TypeA == 1
TypeNS == 2
TypeCNAME == 5
TypeSOA == 6
TypePTR == 12
TypeMX == 15
TypeTXT == 16
TypeAAAA == 28
TypeSRV == 33
TypeANY == 255
TypeCAA == 257

\* A lookup that takes a name outside the table for an A record.
stringToQType_DefaultA(qtype) == [v |-> TypeA, err |-> NoErr]

\* stringToQType: name of a record type to its code, or an error.
stringToQType(qtype) ==
    CASE qtype = "A" -> [v |-> TypeA, err |-> NoErr]
      [] qtype = "AAAA" -> [v |-> TypeAAAA, err |-> NoErr]
      [] qtype = "MX" -> [v |-> TypeMX, err |-> NoErr]
      [] qtype = "TXT" -> [v |-> TypeTXT, err |-> NoErr]
      [] qtype = "CNAME" -> [v |-> TypeCNAME, err |-> NoErr]
      [] qtype = "NS" -> [v |-> TypeNS, err |-> NoErr]
      [] qtype = "PTR" -> [v |-> TypePTR, err |-> NoErr]
      [] qtype = "SOA" -> [v |-> TypeSOA, err |-> NoErr]
      [] qtype = "SRV" -> [v |-> TypeSRV, err |-> NoErr]
      [] qtype = "CAA" -> [v |-> TypeCAA, err |-> NoErr]
      [] qtype = "ANY" -> [v |-> TypeANY, err |-> NoErr]
      [] OTHER -> [v |-> 0, err |-> <<"unsupported DNS record type: ", qtype>>]

\* dns.RcodeToString, for the response codes the model's servers answer with;
\* a code missing from the map gives "".
RcodeToString(rcode) ==
    CASE rcode = 0 -> "NOERROR"
      [] rcode = 2 -> "SERVFAIL"
      [] rcode = 3 -> "NXDOMAIN"
      [] OTHER -> ""

\* The names of the descriptors' query field, and dns.Fqdn of them: a name
\* that ends with a dot is returned as it is, any other gets the dot.
RootedNames == {"host.example.org."}
Fqdn(s) == IF s \in RootedNames THEN s ELSE s \o "."

\* mapstructure.Decode(step, &e) of the DNS executor.
DnsDecode(st) ==
    LET server == DecodeString("Server", st.server)
        query == DecodeString("Query", st.query)
        qtype == DecodeString("QType", st.qtype)
        timeout == DecodeInt("Timeout", st.timeout)
    IN  [ok |-> server.ok /\ query.ok /\ qtype.ok /\ timeout.ok,
         err |-> server.err \o query.err \o qtype.err \o timeout.err,
         e |-> [Server |-> server.s, Query |-> query.s,
                QType |-> qtype.s, Timeout |-> timeout.n]]

\* "Set defaults" of the DNS Run.
DnsDefaults(cfg) ==
    [cfg EXCEPT !.QType = IF cfg.QType = "" THEN DefaultQType ELSE cfg.QType,
                !.Timeout = IF cfg.Timeout = 0 THEN DefaultTimeout ELSE cfg.Timeout]

\* A server check that lets every descriptor through.
DnsServerMissing_Never(cfg) == FALSE

\* The mandatory-server check of the DNS Run.
DnsServerMissing(cfg) == cfg.Server = ""

\* result := Result{Query, QType, Server}; the other fields are zero values.
DnsNewResult(cfg) ==
    [Query |-> cfg.Query, QType |-> cfg.QType, Server |-> cfg.Server,
     RCode |-> "", Message |-> NoVal, Systemout |-> NoVal, SystemoutJSON |-> NoVal,
     Systemerr |-> NoVal, SystemerrJSON |-> NoVal, Err |-> NoErr, TimeSeconds |-> 0]

\* m := new(dns.Msg); m.SetQuestion(dns.Fqdn(e.Query), qType);
\* m.RecursionDesired = true.  SetQuestion draws the identifier.
DnsQuestion(cfg, qType, id) ==
    [Id |-> id, Name |-> Fqdn(cfg.Query), Qtype |-> qType, RecursionDesired |-> TRUE]

NoResponse == [Id |-> 0, Rcode |-> 0, Truncated |-> FALSE, Answer |-> <<>>]

\* What a server may answer to message m: the identifier is the request's.
DnsResponses(m) ==
    {[Id |-> m.Id, Rcode |-> rc, Truncated |-> tc, Answer |-> an] :
        rc \in {0, 3}, tc \in BOOLEAN, an \in {<<>>, <<"rr1">>}}

\* client.ExchangeContext(ctx, m, server), begun at t0 under deadline d:
\* (response, rtt, err) and the time t1 at which the call returns.
DnsExchangeOutcomes(m, t0, d) ==
    {[response |-> r, rtt |-> t - t0, err |-> NoErr, t1 |-> t] :
        r \in DnsResponses(m), t \in ExchangeTimes(t0, d)}
    \cup {[response |-> NoResponse, rtt |-> 0, err |-> ErrNetwork, t1 |-> t] :
        t \in ExchangeTimes(t0, d)}
    \cup {[response |-> NoResponse, rtt |-> 0, err |-> ErrDeadline, t1 |-> Max(t0, d)]}

\* A Run that makes its context from context.Background(): the caller's
\* cancellation never reaches it.
DnsCtxCancelled_Background(par) == FALSE

\* ctx, cancel := context.WithTimeout(ctx, timeout): the context of the
\* exchanges is a child of the caller's and is cancelled when the caller's is.
DnsCtxCancelled(par) == par.cancelled

\* client.ExchangeContext(ctx, m, e.Server) under Run's context: a cancelled
\* context ends the exchange with the context's error at the time of the
\* cancellation.
DnsExchange(par, m, t0, d) ==
    IF DnsCtxCancelled(par)
    THEN {[response |-> NoResponse, rtt |-> 0, err |-> ErrCanceled, t1 |-> Max(t0, par.at)]}
    ELSE DnsExchangeOutcomes(m, t0, d)

\* rrToJSON, for the resource records of the model: the string form.
rrToJSON(rr) == [value |-> rr]

\* dnsMessageToJSON: the normalized tree of a response; its error is always nil.
dnsMessageToJSON(msg) ==
    [json |-> [id |-> msg.Id, truncated |-> msg.Truncated,
               rcode |-> RcodeToString(msg.Rcode),
               answer |-> [i \in DOMAIN msg.Answer |-> rrToJSON(msg.Answer[i])]],
     err |-> NoErr]

\* Run, from "elapsed := time.Since(start)" after the exchanges to its return:
\* the Result built from the working response and rtt.
DnsAssemble(res, cfg, resp, rt, elapsed) ==
    LET r1 == [res EXCEPT !.TimeSeconds = elapsed,
                          !.RCode = RcodeToString(resp.Rcode)]
        conv == dnsMessageToJSON(resp)
    IN  IF conv.err # NoErr
        THEN [r1 EXCEPT !.Err = <<"failed to convert DNS message to JSON: ">> \o conv.err]
        ELSE [r1 EXCEPT !.Message = <<conv.json>>,
                        !.SystemoutJSON = <<conv.json>>,
                        !.Systemout = <<[query |-> cfg.Query, qtype |-> cfg.QType,
                                         server |-> cfg.Server, rcode |-> r1.RCode,
                                         rtt |-> rt, answers |-> resp.Answer]>>]

\* The soft failures of the DNS Run before a response is there (unsupported
\* record type, failed UDP exchange): result.Err and the elapsed time are set.
DnsFailure(res, err, elapsed) == [res EXCEPT !.Err = err, !.TimeSeconds = elapsed]

\* A Run that never retries over TCP: the UDP response is reported as it is.
DnsRetriesOverTcp_Never(resp) == FALSE

\* A Run that retries over TCP after every UDP response.
DnsRetriesOverTcp_Always(resp) == TRUE

\* "if response.Truncated": whether Run retries over TCP after the UDP
\* exchange has returned a response.
DnsRetriesOverTcp(resp) == resp.Truncated

\* ctx, cancel := context.WithTimeout(ctx, timeout) at time t: the deadline of
\* the new context (the caller's context has none).
DnsCtxDeadline(t, cfg) == t + cfg.Timeout

\* A retry given a context of its own, made when the retry begins.
DnsTcpDeadline_Fresh(ctxDeadline, t, cfg) == t + cfg.Timeout

\* The deadline of the context handed to the TCP retry at time t: the retry is
\* given ctx, the context of the UDP exchange.
DnsTcpDeadline(ctxDeadline, t, cfg) == ctxDeadline

\* A retry whose clean response is not taken over.
DnsAfterRetry_KeepUdp(res, udpResponse, udpRtt, out) ==
    IF out.err # NoErr
    THEN [response |-> udpResponse, rtt |-> udpRtt,
          result |-> [res EXCEPT !.Err = <<"UDP response truncated, TCP retry failed: ">> \o out.err]]
    ELSE IF out.response.Truncated
    THEN [response |-> udpResponse, rtt |-> udpRtt,
          result |-> [res EXCEPT !.Err = <<"UDP response truncated, TCP retry also returned truncated response">>]]
    ELSE [response |-> udpResponse, rtt |-> udpRtt, result |-> res]

\* A retry whose failure replaces the working response by the retry's (empty) one.
DnsAfterRetry_DropUdp(res, udpResponse, udpRtt, out) ==
    IF out.err # NoErr
    THEN [response |-> out.response, rtt |-> out.rtt,
          result |-> [res EXCEPT !.Err = <<"UDP response truncated, TCP retry failed: ">> \o out.err]]
    ELSE IF out.response.Truncated
    THEN [response |-> udpResponse, rtt |-> udpRtt,
          result |-> [res EXCEPT !.Err = <<"UDP response truncated, TCP retry also returned truncated response">>]]
    ELSE [response |-> out.response, rtt |-> out.rtt, result |-> res]

\* The three outcomes of the TCP retry: the working (response, rtt) and
\* result.Err after the "if response.Truncated" block.
DnsAfterRetry(res, udpResponse, udpRtt, out) ==
    IF out.err # NoErr
    THEN [response |-> udpResponse, rtt |-> udpRtt,
          result |-> [res EXCEPT !.Err = <<"UDP response truncated, TCP retry failed: ">> \o out.err]]
    ELSE IF out.response.Truncated
    THEN [response |-> udpResponse, rtt |-> udpRtt,
          result |-> [res EXCEPT !.Err = <<"UDP response truncated, TCP retry also returned truncated response">>]]
    ELSE [response |-> out.response, rtt |-> out.rtt, result |-> res]

\* The descriptors handed to the DNS Run.
Timeouts == {Absent, StrV("abc")} \cup {IntV(n) : n \in 1..MaxTimeout}
DnsSteps ==
    [server : {Absent, StrV(""), StrV("8.8.8.8:53")},
     query : {Absent, StrV("example.com"), StrV("host.example.org.")},
     qtype : {Absent, StrV("A"), StrV("MX"), StrV("INVALID")},
     timeout : Timeouts]

(***************************************************************************)
(* RADIUS executor                                                         *)
(***************************************************************************)
DefaultServer == "localhost:1812"
DefaultSecret == "secret"
DefaultCode == "Access-Request"

\* The attribute values of the descriptors, and []byte(value) of each.
Bytes(s) ==
    CASE s = "" -> <<>>
      [] s = "12" -> <<49, 50>>
      [] s = "-1" -> <<45, 49>>
      [] s = "abc" -> <<97, 98, 99>>
      [] s = "1.2a" -> <<49, 46, 50, 97>>
      [] s = "alice" -> <<97, 108, 105, 99, 101>>
      [] s = "value" -> <<118, 97, 108, 117, 101>>
      [] s = "Bogus" -> <<66, 111, 103, 117, 115>>
      [] s = "Login-User" -> <<76, 111, 103, 105, 110, 45, 85, 115, 101, 114>>
      [] s = "192.168.1.1" -> <<49, 57, 50, 46, 49, 54, 56, 46, 49, 46, 49>>

RECURSIVE ParseDigits(_, _)
ParseDigits(bs, acc) ==
    IF bs = <<>> THEN acc ELSE ParseDigits(Tail(bs), acc * 10 + (Head(bs) - 48))

\* strconv.Atoi: an optional sign, then one or more decimal digits (values
\* beyond the range of int do not occur in the descriptors of the model).
Atoi(s) ==
    LET bs == Bytes(s)
        signed == bs # <<>> /\ bs[1] \in {43, 45}
        ds == IF signed THEN Tail(bs) ELSE bs
    IN  IF ds = <<>> \/ \E i \in DOMAIN ds : ds[i] \notin 48..57
        THEN [ok |-> FALSE, n |-> 0]
        ELSE [ok |-> TRUE,
              n |-> IF signed /\ bs[1] = 45 THEN 0 - ParseDigits(ds, 0) ELSE ParseDigits(ds, 0)]

\* The conversion of an int to a uint32-based attribute type, e.g.
\* rfc2865.NASPort(port): the low 32 bits, kept as two 16-bit halves.
Uint32(n) == [hi |-> (n \div 65536) % 65536, lo |-> n % 65536]

\* radius.Code of each packet-code name of Run's switch; ok is FALSE in its
\* default case.
ParseCode(name) ==
    CASE name = "Access-Request" -> [ok |-> TRUE, code |-> 1]
      [] name = "Access-Accept" -> [ok |-> TRUE, code |-> 2]
      [] name = "Access-Reject" -> [ok |-> TRUE, code |-> 3]
      [] name = "Accounting-Request" -> [ok |-> TRUE, code |-> 4]
      [] name = "Accounting-Response" -> [ok |-> TRUE, code |-> 5]
      [] name = "Access-Challenge" -> [ok |-> TRUE, code |-> 11]
      [] name = "Status-Server" -> [ok |-> TRUE, code |-> 12]
      [] name = "Status-Client" -> [ok |-> TRUE, code |-> 13]
      [] name = "Disconnect-Request" -> [ok |-> TRUE, code |-> 40]
      [] name = "Disconnect-ACK" -> [ok |-> TRUE, code |-> 41]
      [] name = "Disconnect-NAK" -> [ok |-> TRUE, code |-> 42]
      [] name = "CoA-Request" -> [ok |-> TRUE, code |-> 43]
      [] name = "CoA-ACK" -> [ok |-> TRUE, code |-> 44]
      [] name = "CoA-NAK" -> [ok |-> TRUE, code |-> 45]
      [] OTHER -> [ok |-> FALSE, code |-> 0]

SupportedCodes ==
    {"Access-Request", "Access-Accept", "Access-Reject", "Accounting-Request",
     "Accounting-Response", "Access-Challenge", "Status-Server", "Status-Client",
     "Disconnect-Request", "Disconnect-ACK", "Disconnect-NAK", "CoA-Request",
     "CoA-ACK", "CoA-NAK"}

\* response.Code.String() for the codes the model's servers answer with.
CodeString(code) ==
    CASE code = 2 -> "Access-Accept"
      [] code = 3 -> "Access-Reject"
      [] code = 5 -> "Accounting-Response"
      [] code = 11 -> "Access-Challenge"
      [] OTHER -> "Code(?)"

\* The cases of addAttribute's switch, by the kind of value they set.
StringAttrs ==
    {"User-Name", "User-Password", "Filter-Id", "Reply-Message", "Callback-Number",
     "Callback-Id", "Framed-Route", "State", "Class", "Called-Station-Id",
     "Calling-Station-Id", "NAS-Identifier", "Proxy-State", "Login-LAT-Service",
     "Login-LAT-Node", "Login-LAT-Group", "Framed-AppleTalk-Zone", "Acct-Session-Id",
     "Acct-Multi-Session-Id"}
IPAttrs == {"NAS-IP-Address", "Framed-IP-Address", "Framed-IP-Netmask", "Framed-IPX-Network"}
IntAttrs ==
    {"NAS-Port", "Framed-MTU", "Session-Timeout", "Idle-Timeout", "Acct-Session-Time",
     "Acct-Input-Octets", "Acct-Output-Octets", "Acct-Input-Packets",
     "Acct-Output-Packets", "Acct-Link-Count"}
EnumAttrs ==
    {"Service-Type", "Framed-Protocol", "Framed-Routing", "Termination-Action",
     "Acct-Status-Type", "Acct-Authentic", "Acct-Terminate-Cause"}
SupportedAttrs == StringAttrs \cup IPAttrs \cup IntAttrs \cup EnumAttrs

\* The attribute type each rfc2865/rfc2866 setter called by addAttribute writes.
AttrType(name) ==
    CASE name = "User-Name" -> 1 [] name = "User-Password" -> 2
      [] name = "NAS-IP-Address" -> 4 [] name = "NAS-Port" -> 5
      [] name = "Service-Type" -> 6 [] name = "Framed-Protocol" -> 7
      [] name = "Framed-IP-Address" -> 8 [] name = "Framed-IP-Netmask" -> 9
      [] name = "Framed-Routing" -> 10 [] name = "Filter-Id" -> 11
      [] name = "Framed-MTU" -> 12 [] name = "Reply-Message" -> 18
      [] name = "Callback-Number" -> 19 [] name = "Callback-Id" -> 20
      [] name = "Framed-Route" -> 22 [] name = "Framed-IPX-Network" -> 23
      [] name = "State" -> 24 [] name = "Class" -> 25
      [] name = "Session-Timeout" -> 27 [] name = "Idle-Timeout" -> 28
      [] name = "Termination-Action" -> 29 [] name = "Called-Station-Id" -> 30
      [] name = "Calling-Station-Id" -> 31 [] name = "NAS-Identifier" -> 32
      [] name = "Proxy-State" -> 33 [] name = "Login-LAT-Service" -> 34
      [] name = "Login-LAT-Node" -> 35 [] name = "Login-LAT-Group" -> 36
      [] name = "Framed-AppleTalk-Zone" -> 39 [] name = "Acct-Status-Type" -> 40
      [] name = "Acct-Input-Octets" -> 42 [] name = "Acct-Output-Octets" -> 43
      [] name = "Acct-Session-Id" -> 44 [] name = "Acct-Authentic" -> 45
      [] name = "Acct-Session-Time" -> 46 [] name = "Acct-Input-Packets" -> 47
      [] name = "Acct-Output-Packets" -> 48 [] name = "Acct-Terminate-Cause" -> 49
      [] name = "Acct-Multi-Session-Id" -> 50 [] name = "Acct-Link-Count" -> 51

\* The inner switches of addAttribute: the number each enumeration name is
\* encoded as; ok is FALSE in their default cases.
EnumValue(name, value) ==
    LET yes(n) == [ok |-> TRUE, v |-> n]
        no == [ok |-> FALSE, v |-> 0]
    IN  CASE name = "Service-Type" ->
               (CASE value = "Login-User" -> yes(1)
                  [] value = "Framed-User" -> yes(2)
                  [] value = "Callback-Login-User" -> yes(3)
                  [] value = "Callback-Framed-User" -> yes(4)
                  [] value = "Outbound-User" -> yes(5)
                  [] value = "Administrative-User" -> yes(6)
                  [] value = "NAS-Prompt-User" -> yes(7)
                  [] value = "Call-Check-User" -> yes(8)
                  [] value = "Callback-Administrative-User" -> yes(9)
                  [] OTHER -> no)
          [] name = "Framed-Protocol" ->
               (CASE value = "PPP" -> yes(1)
                  [] value = "SLIP" -> yes(2)
                  [] value = "ARAP" -> yes(3)
                  [] value = "Gandalf" -> yes(4)
                  [] value = "Xylogics" -> yes(5)
                  [] value = "X.75-Synchronous" -> yes(6)
                  [] OTHER -> no)
          [] name = "Framed-Routing" ->
               (CASE value = "None" -> yes(0)
                  [] value = "Broadcast" -> yes(1)
                  [] value = "Listen" -> yes(2)
                  [] value = "Broadcast-Listen" -> yes(3)
                  [] OTHER -> no)
          [] name = "Termination-Action" ->
               (CASE value = "Default" -> yes(0)
                  [] value = "RADIUS-Request" -> yes(1)
                  [] OTHER -> no)
          [] name = "Acct-Status-Type" ->
               (CASE value = "Start" -> yes(1)
                  [] value = "Stop" -> yes(2)
                  [] value = "Interim-Update" -> yes(3)
                  [] value = "Accounting-On" -> yes(7)
                  [] value = "Accounting-Off" -> yes(8)
                  [] OTHER -> no)
          [] name = "Acct-Authentic" ->
               (CASE value = "RADIUS" -> yes(1)
                  [] value = "Local" -> yes(2)
                  [] value = "Remote" -> yes(3)
                  [] OTHER -> no)
          [] name = "Acct-Terminate-Cause" ->
               (CASE value = "User-Request" -> yes(1)
                  [] value = "Lost-Carrier" -> yes(2)
                  [] value = "Lost-Service" -> yes(3)
                  [] value = "Idle-Timeout" -> yes(4)
                  [] value = "Session-Timeout" -> yes(5)
                  [] value = "Admin-Reset" -> yes(6)
                  [] value = "Admin-Reboot" -> yes(7)
                  [] value = "Port-Error" -> yes(8)
                  [] value = "NAS-Error" -> yes(9)
                  [] value = "NAS-Request" -> yes(10)
                  [] value = "NAS-Reboot" -> yes(11)
                  [] value = "Port-Unneeded" -> yes(12)
                  [] value = "Port-Preempted" -> yes(13)
                  [] value = "Port-Suspended" -> yes(14)
                  [] value = "Service-Unavailable" -> yes(15)
                  [] value = "Callback" -> yes(16)
                  [] value = "User-Error" -> yes(17)
                  [] value = "Host-Request" -> yes(18)
                  [] OTHER -> no)
          [] OTHER -> no

\* One attribute of a packet: its type and its value as text, number or bytes.
Avp(type, s, n, b) == [Type |-> type, S |-> s, N |-> n, B |-> b]

\* radius.NewIPAddr, called by the IP setters: only a 4-byte value (or a
\* 16-byte IPv4-mapped one, which no text is) is an address; the setter
\* returns an error otherwise and leaves the packet as it was.
IsIPv4(b) == Len(b) = 4

\* addAttribute: the packet with the attribute set, and the returned error.
\* The error a setter returns is dropped by addAttribute.
addAttribute(packet, name, value) ==
    CASE name \in StringAttrs ->
           [packet |-> [packet EXCEPT !.Attributes = Append(@, Avp(AttrType(name), value, Uint32(0), <<>>))],
            err |-> NoErr]
      [] name \in IPAttrs ->
           [packet |-> IF IsIPv4(Bytes(value))
                       THEN [packet EXCEPT !.Attributes =
                                Append(@, Avp(AttrType(name), "", Uint32(0), Bytes(value)))]
                       ELSE packet,
            err |-> NoErr]
      [] name \in IntAttrs ->
           IF Atoi(value).ok
           THEN [packet |-> [packet EXCEPT !.Attributes =
                                Append(@, Avp(AttrType(name), "", Uint32(Atoi(value).n), <<>>))],
                 err |-> NoErr]
           ELSE [packet |-> packet, err |-> <<"invalid ", name, " value: ", value>>]
      [] name \in EnumAttrs ->
           IF EnumValue(name, value).ok
           THEN [packet |-> [packet EXCEPT !.Attributes =
                                Append(@, Avp(AttrType(name), "", Uint32(EnumValue(name, value).v), <<>>))],
                 err |-> NoErr]
           ELSE [packet |-> packet, err |-> <<"unsupported ", name, ": ", value>>]
      [] OTHER -> [packet |-> packet, err |-> <<"unsupported attribute: ", name>>]

\* mapstructure.Decode(step, &e) of the RADIUS executor; the attributes of the
\* model's descriptors are always a map[string]string.
RadiusDecode(st) ==
    LET server == DecodeString("Server", st.server)
        secret == DecodeString("Secret", st.secret)
        code == DecodeString("Code", st.code)
        timeout == DecodeInt("Timeout", st.timeout)
    IN  [ok |-> server.ok /\ secret.ok /\ code.ok /\ timeout.ok,
         err |-> server.err \o secret.err \o code.err \o timeout.err,
         e |-> [Server |-> server.s, Secret |-> secret.s, Code |-> code.s,
                Timeout |-> timeout.n, Attributes |-> st.attributes]]

\* Defaults that replace the server whether or not the descriptor names one.
RadiusDefaults_Overwrite(cfg) ==
    [cfg EXCEPT !.Server = DefaultServer,
                !.Secret = IF cfg.Secret = "" THEN DefaultSecret ELSE cfg.Secret,
                !.Code = IF cfg.Code = "" THEN DefaultCode ELSE cfg.Code,
                !.Timeout = IF cfg.Timeout = 0 THEN DefaultTimeout ELSE cfg.Timeout]

\* "Set defaults" of the RADIUS Run.
RadiusDefaults(cfg) ==
    [cfg EXCEPT !.Server = IF cfg.Server = "" THEN DefaultServer ELSE cfg.Server,
                !.Secret = IF cfg.Secret = "" THEN DefaultSecret ELSE cfg.Secret,
                !.Code = IF cfg.Code = "" THEN DefaultCode ELSE cfg.Code,
                !.Timeout = IF cfg.Timeout = 0 THEN DefaultTimeout ELSE cfg.Timeout]

\* result := Result{}
RadiusNewResult ==
    [Systemout |-> NoVal, SystemoutJSON |-> NoVal, Systemerr |-> NoVal,
     SystemerrJSON |-> NoVal, Err |-> NoErr, Code |-> "", TimeSeconds |-> 0,
     Attributes |-> NoVal, Request |-> NoVal]

\* packet := radius.New(code, []byte(e.Secret))
RadiusNewPacket(code, secret) == [Code |-> code, Secret |-> secret, Attributes |-> <<>>]

\* The orders in which "for attrName, attrValue := range e.Attributes" may
\* visit the map: Go leaves the order of a map's iteration unspecified.
RangeOrders(attrs) ==
    {ord \in [1..Cardinality(DOMAIN attrs) -> DOMAIN attrs] :
        \A i, j \in DOMAIN ord : i # j => ord[i] # ord[j]}

\* What Run does to the result when addAttribute fails, before returning it.
RadiusAttributeFailure(res, attrName, err) ==
    [res EXCEPT !.Err = <<"failed to add attribute ", attrName, ": ">> \o err]

\* A loop that skips an attribute that fails and goes on with the rest.
RECURSIVE AddAttributes_SkipFailed(_, _, _)
AddAttributes_SkipFailed(packet, attrs, ord) ==
    IF ord = <<>>
    THEN [packet |-> packet, name |-> "", err |-> NoErr]
    ELSE LET r == addAttribute(packet, Head(ord), attrs[Head(ord)])
         IN  AddAttributes_SkipFailed(r.packet, attrs, Tail(ord))

\* The "Add attributes" loop of Run over the map in the order ord: the packet
\* built, and the name and error of the first attribute that fails (if any).
RECURSIVE AddAttributes(_, _, _)
AddAttributes(packet, attrs, ord) ==
    IF ord = <<>>
    THEN [packet |-> packet, name |-> "", err |-> NoErr]
    ELSE LET r == addAttribute(packet, Head(ord), attrs[Head(ord)])
         IN  IF r.err # NoErr
             THEN [packet |-> r.packet, name |-> Head(ord), err |-> r.err]
             ELSE AddAttributes(r.packet, attrs, Tail(ord))

\* "Store request info"
RadiusRequest(cfg) ==
    <<[server |-> cfg.Server, code |-> cfg.Code, attributes |-> cfg.Attributes]>>

\* An unsupported code reported in the Result instead of as an error.
RadiusUnsupportedCode_Soft(cfg) ==
    ReturnResult([RadiusNewResult EXCEPT !.Err = <<"unsupported RADIUS code: ", cfg.Code>>])

\* What Run does when the code name is in no case of the switch.
RadiusUnsupportedCode(cfg) == HardFailure(<<"unsupported RADIUS code: ", cfg.Code>>)

NoPacket == [Code |-> 0, UserName |-> "", ReplyMessage |-> "", AcctSessionID |-> ""]

\* What a server may answer.
RadiusResponses ==
    {[Code |-> c, UserName |-> "", ReplyMessage |-> rm, AcctSessionID |-> ""] :
        c \in {2, 3}, rm \in {"", "welcome"}}

\* radius.Exchange(ctx, packet, server), begun at t0 under deadline d.
RadiusExchangeOutcomes(t0, d) ==
    {[response |-> r, err |-> NoErr, t1 |-> t] :
        r \in RadiusResponses, t \in ExchangeTimes(t0, d)}
    \cup {[response |-> NoPacket, err |-> ErrNetwork, t1 |-> t] : t \in ExchangeTimes(t0, d)}
    \cup {[response |-> NoPacket, err |-> ErrDeadline, t1 |-> Max(t0, d)]}

\* A Run that makes its context from context.Background().
RadiusCtxCancelled_Background(par) == FALSE

\* ctx, cancel := context.WithTimeout(ctx, e.Timeout): a child of the caller's
\* context, cancelled when the caller's is.
RadiusCtxCancelled(par) == par.cancelled

\* radius.Exchange(ctx, packet, e.Server) under Run's context.
RadiusExchange(par, t0, d) ==
    IF RadiusCtxCancelled(par)
    THEN {[response |-> NoPacket, err |-> ErrCanceled, t1 |-> Max(t0, par.at)]}
    ELSE RadiusExchangeOutcomes(t0, d)

\* An extraction that files the reply message under the user's name and the
\* user's name under the reply message.
RadiusResponseAttributes_Swapped(resp) ==
    LET all == [n \in {"User-Name", "Reply-Message", "Acct-Session-Id"} |->
                   CASE n = "User-Name" -> resp.ReplyMessage
                     [] n = "Reply-Message" -> resp.UserName
                     [] n = "Acct-Session-Id" -> resp.AcctSessionID]
    IN  [n \in {x \in DOMAIN all : all[x] # ""} |-> all[n]]

\* "Extract common attributes": the well-known attributes the response carries.
RadiusResponseAttributes(resp) ==
    LET all == [n \in {"User-Name", "Reply-Message", "Acct-Session-Id"} |->
                   CASE n = "User-Name" -> resp.UserName
                     [] n = "Reply-Message" -> resp.ReplyMessage
                     [] n = "Acct-Session-Id" -> resp.AcctSessionID]
    IN  [n \in {x \in DOMAIN all : all[x] # ""} |-> all[n]]

\* Run, from "Parse response" to its return.
RadiusAssemble(res, resp, elapsed) ==
    LET code == CodeString(resp.Code)
        attrs == RadiusResponseAttributes(resp)
    IN  [res EXCEPT !.Code = code,
                    !.Attributes = <<attrs>>,
                    !.Systemout = <<[code |-> code, attributes |-> attrs]>>,
                    !.SystemoutJSON = <<[code |-> code, attributes |-> attrs]>>,
                    !.TimeSeconds = elapsed]

\* What Run does to the result when radius.Exchange fails, before returning it.
RadiusExchangeFailure(res, err, elapsed) == [res EXCEPT !.Err = err, !.TimeSeconds = elapsed]

\* ctx, cancel := context.WithTimeout(ctx, timeout) of the RADIUS Run at time t.
RadiusCtxDeadline(t, cfg) == t + cfg.Timeout

\* The descriptors handed to the RADIUS Run.
MaxAttrs == 2
AttrPool ==
    {<<"User-Name", "alice">>, <<"NAS-Port", "12">>, <<"NAS-Port", "abc">>,
     <<"Service-Type", "Login-User">>, <<"Service-Type", "Bogus">>,
     <<"Invalid-Attribute", "value">>, <<"NAS-IP-Address", "192.168.1.1">>}
AttrNames == {p[1] : p \in AttrPool}
AttrValues == {p[2] : p \in AttrPool}
AttrMaps ==
    UNION {{f \in [D -> AttrValues] : \A n \in D : <<n, f[n]>> \in AttrPool} :
              D \in {X \in SUBSET AttrNames : Cardinality(X) <= MaxAttrs}}
RadiusSteps ==
    [server : {Absent, StrV("radius.example:1812")},
     secret : {Absent, StrV("s3cret")},
     code : {Absent, StrV("Accounting-Request"), StrV("Invalid-Code")},
     timeout : Timeouts,
     attributes : AttrMaps]

(***************************************************************************)
(* The attribute encoder on its own: one (name, value) pair is encoded     *)
(* into a fresh packet by addAttribute; the packet's attributes then come  *)
(* back in a response, from which Run extracts the attributes it knows.    *)
(***************************************************************************)
\* rfc2865.UserName_GetString(response) and its like: the text of the first
\* attribute of the type, "" when the packet has none.
GetString(packet, type) ==
    LET is == {i \in DOMAIN packet.Attributes : packet.Attributes[i].Type = type}
    IN  IF is = {} THEN ""
        ELSE packet.Attributes[CHOOSE i \in is : \A j \in is : i <= j].S

\* A response that carries the attributes of the packet, as the three
\* getters of "Extract common attributes" read it.
EchoOf(packet) ==
    [Code |-> 2,
     UserName |-> GetString(packet, AttrType("User-Name")),
     ReplyMessage |-> GetString(packet, AttrType("Reply-Message")),
     AcctSessionID |-> GetString(packet, AttrType("Acct-Session-Id"))]

\* The value names of the enumerations' switches.
EnumValueNames ==
    {"Login-User", "Framed-User", "Callback-Login-User", "Callback-Framed-User",
     "Outbound-User", "Administrative-User", "NAS-Prompt-User", "Call-Check-User",
     "Callback-Administrative-User",
     "PPP", "SLIP", "ARAP", "Gandalf", "Xylogics", "X.75-Synchronous",
     "None", "Broadcast", "Listen", "Broadcast-Listen",
     "Default", "RADIUS-Request",
     "Start", "Stop", "Interim-Update", "Accounting-On", "Accounting-Off",
     "RADIUS", "Local", "Remote",
     "User-Request", "Lost-Carrier", "Lost-Service", "Idle-Timeout", "Session-Timeout",
     "Admin-Reset", "Admin-Reboot", "Port-Error", "NAS-Error", "NAS-Request",
     "NAS-Reboot", "Port-Unneeded", "Port-Preempted", "Port-Suspended",
     "Service-Unavailable", "Callback", "User-Error", "Host-Request"}
EnumNames(name) == {v \in EnumValueNames : EnumValue(name, v).ok}

\* The (name, value) pairs handed to the encoder: every supported name, with
\* values its kind accepts and values it does not, and an unsupported name.
CodecInputs ==
    (StringAttrs \X {"", "alice"})
    \cup (IPAttrs \X {"192.168.1.1", "1.2a", "abc"})
    \cup (IntAttrs \X {"12", "-1", "abc"})
    \cup UNION {{n} \X (EnumNames(n) \cup {"Bogus"}) : n \in EnumAttrs}
    \cup {<<"Invalid-Attribute", "value">>}

CodecOff ==
    [pc |-> "off", name |-> "", value |-> "", packet |-> RadiusNewPacket(0, ""),
     err |-> NoErr, attrs |-> NoVal]

\* The locals of an invocation of Run that has not begun.
NewCall ==
    [pc |-> "idle", exec |-> "none", step |-> NoVal, e |-> NoVal, result |-> NoVal,
     ret |-> [result |-> NoResult, err |-> NoErr], response |-> NoResponse, rtt |-> 0,
     ord |-> <<>>, outs |-> <<>>, elapsed |-> 0]

\* The invocations that run concurrently.
CallIds == {1, 2}

NotAsserted == [exec |-> "none", value |-> NoVal]

\* No Run has been invoked.
RunIdle ==
    /\ pc = "idle"
    /\ exec = "none"
    /\ step = NoVal
    /\ e = NoVal
    /\ result = NoVal
    /\ ret = [result |-> NoResult, err |-> NoErr]
    /\ now = 0
    /\ start = 0
    /\ deadline = 0
    /\ response = NoResponse
    /\ rtt = 0
    /\ sent = <<>>
    /\ parent = NotCancelled

Init ==
    /\ RunIdle
    /\ codec = CodecOff
    /\ calls = [c \in CallIds |-> NewCall]
    /\ asserted = NotAsserted

\* Run of the DNS executor, up to its return or to the UDP exchange in flight.
DnsRun ==
    /\ pc = "idle"
    /\ \E st \in DnsSteps, id \in 1..MaxMsgId, cpu \in 1..MaxCpu :
        LET dec == DnsDecode(st)
            cfg == DnsDefaults(dec.e)
            qt == stringToQType(cfg.QType)
            m == DnsQuestion(cfg, qt.v, id)
        IN  /\ exec' = "dns"
            /\ step' = st
            /\ UNCHANGED <<response, rtt, parent, codec, calls, asserted>>
            /\ IF ~dec.ok
               THEN /\ ret' = HardFailure(dec.err)
                    /\ pc' = "done"
                    /\ UNCHANGED <<e, result, now, start, deadline, sent>>
               ELSE IF DnsServerMissing(dec.e)
               THEN /\ ret' = HardFailure(ErrServerMandatory)
                    /\ e' = dec.e
                    /\ pc' = "done"
                    /\ UNCHANGED <<result, now, start, deadline, sent>>
               ELSE IF qt.err # NoErr
               THEN /\ e' = cfg
                    /\ start' = now
                    /\ now' = now + cpu
                    /\ result' = DnsFailure(DnsNewResult(cfg), qt.err, now' - start')
                    /\ ret' = ReturnResult(result')
                    /\ pc' = "done"
                    /\ UNCHANGED <<deadline, sent>>
               ELSE /\ e' = cfg
                    /\ start' = now
                    /\ result' = DnsNewResult(cfg)
                    /\ deadline' = DnsCtxDeadline(now, cfg)
                    /\ sent' = <<[net |-> "udp", msg |-> m, server |-> cfg.Server,
                                  t0 |-> now, deadline |-> deadline',
                                  returned |-> FALSE, t1 |-> now,
                                  err |-> NoErr, resp |-> NoResponse]>>
                    /\ pc' = "udp"
                    /\ UNCHANGED <<ret, now>>

\* The UDP exchange returns: Run returns, or begins the TCP retry.
DnsUdpReturn ==
    /\ pc = "udp"
    /\ \E out \in DnsExchange(parent, sent[1].msg, sent[1].t0, sent[1].deadline),
          id \in 1..MaxMsgId, cpu \in 1..MaxCpu :
        LET log == [sent EXCEPT ![1].returned = TRUE, ![1].t1 = out.t1,
                                ![1].err = out.err, ![1].resp = out.response]
        IN  IF out.err # NoErr
            THEN /\ now' = out.t1 + cpu
                 /\ result' = DnsFailure(result, out.err, now' - start)
                 /\ ret' = ReturnResult(result')
                 /\ sent' = log
                 /\ pc' = "done"
                 /\ UNCHANGED <<response, rtt>>
            ELSE IF DnsRetriesOverTcp(out.response)
            THEN /\ now' = out.t1
                 /\ response' = out.response
                 /\ rtt' = out.rtt
                 /\ sent' = Append(log,
                        [net |-> "tcp",
                         msg |-> DnsQuestion(e, sent[1].msg.Qtype, id),
                         server |-> e.Server, t0 |-> out.t1,
                         deadline |-> DnsTcpDeadline(deadline, out.t1, e),
                         returned |-> FALSE, t1 |-> out.t1,
                         err |-> NoErr, resp |-> NoResponse])
                 /\ pc' = "tcp"
                 /\ UNCHANGED <<result, ret>>
            ELSE /\ now' = out.t1 + cpu
                 /\ response' = out.response
                 /\ rtt' = out.rtt
                 /\ result' = DnsAssemble(result, e, out.response, out.rtt, now' - start)
                 /\ ret' = ReturnResult(result')
                 /\ sent' = log
                 /\ pc' = "done"
    /\ UNCHANGED <<exec, step, e, start, deadline, parent, codec, calls, asserted>>

\* The TCP retry returns: Run assembles the Result and returns.
DnsTcpReturn ==
    /\ pc = "tcp"
    /\ \E out \in DnsExchange(parent, sent[2].msg, sent[2].t0, sent[2].deadline),
          cpu \in 1..MaxCpu :
        LET after == DnsAfterRetry(result, response, rtt, out)
        IN  /\ now' = out.t1 + cpu
            /\ response' = after.response
            /\ rtt' = after.rtt
            /\ result' = DnsAssemble(after.result, e, after.response, after.rtt, now' - start)
            /\ ret' = ReturnResult(result')
            /\ sent' = [sent EXCEPT ![2].returned = TRUE, ![2].t1 = out.t1,
                                    ![2].err = out.err, ![2].resp = out.response]
            /\ pc' = "done"
    /\ UNCHANGED <<exec, step, e, start, deadline, parent, codec, calls, asserted>>

\* Run of the RADIUS executor, up to its return or to the exchange in flight.
RadiusRun ==
    /\ pc = "idle"
    /\ \E st \in RadiusSteps :
        LET dec == RadiusDecode(st)
            cfg == RadiusDefaults(dec.e)
            code == ParseCode(cfg.Code)
        IN  /\ exec' = "radius"
            /\ step' = st
            /\ UNCHANGED <<response, rtt, parent, codec, calls, asserted>>
            /\ IF ~dec.ok
               THEN /\ ret' = HardFailure(dec.err)
                    /\ pc' = "done"
                    /\ UNCHANGED <<e, result, now, start, deadline, sent>>
               ELSE IF ~code.ok
               THEN /\ ret' = RadiusUnsupportedCode(cfg)
                    /\ e' = cfg
                    /\ start' = now
                    /\ result' = RadiusNewResult
                    /\ pc' = "done"
                    /\ UNCHANGED <<now, deadline, sent>>
               ELSE \E ord \in RangeOrders(cfg.Attributes) :
                    LET enc == AddAttributes(RadiusNewPacket(code.code, cfg.Secret),
                                             cfg.Attributes, ord)
                    IN  /\ e' = cfg
                        /\ start' = now
                        /\ IF enc.err # NoErr
                           THEN /\ result' = RadiusAttributeFailure(RadiusNewResult, enc.name, enc.err)
                                /\ ret' = ReturnResult(result')
                                /\ pc' = "done"
                                /\ UNCHANGED <<now, deadline, sent>>
                           ELSE /\ result' = [RadiusNewResult EXCEPT !.Request = RadiusRequest(cfg)]
                                /\ deadline' = RadiusCtxDeadline(now, cfg)
                                /\ sent' = <<[net |-> "udp", msg |-> enc.packet,
                                              server |-> cfg.Server, t0 |-> now,
                                              deadline |-> deadline',
                                              returned |-> FALSE, t1 |-> now,
                                              err |-> NoErr, resp |-> NoPacket]>>
                                /\ pc' = "xchg"
                                /\ UNCHANGED <<ret, now>>

\* radius.Exchange returns: Run builds the Result and returns.
RadiusExchangeReturn ==
    /\ pc = "xchg"
    /\ \E out \in RadiusExchange(parent, sent[1].t0, sent[1].deadline), cpu \in 1..MaxCpu :
        /\ now' = out.t1 + cpu
        /\ sent' = [sent EXCEPT ![1].returned = TRUE, ![1].t1 = out.t1,
                                ![1].err = out.err, ![1].resp = out.response]
        /\ result' = IF out.err # NoErr
                     THEN RadiusExchangeFailure(result, out.err, now' - start)
                     ELSE RadiusAssemble(result, out.response, now' - start)
        /\ ret' = ReturnResult(result')
        /\ pc' = "done"
    /\ UNCHANGED <<exec, step, e, start, deadline, response, rtt, parent, codec, calls, asserted>>

\* The caller cancels the context it handed to Run while an exchange of the
\* Run is in flight, at a time before the deadline of the Run's context.
CancelParent ==
    /\ pc \in {"udp", "tcp", "xchg"}
    /\ ~parent.cancelled
    /\ \E t \in sent[Len(sent)].t0 .. (sent[Len(sent)].deadline - 1) :
          parent' = [cancelled |-> TRUE, at |-> t, during |-> Len(sent)]
    /\ UNCHANGED <<pc, exec, step, e, result, ret, now, start, deadline, response, rtt, sent,
                   codec, calls, asserted>>

Next ==
    \/ DnsRun
    \/ DnsUdpReturn
    \/ DnsTcpReturn
    \/ RadiusRun
    \/ RadiusExchangeReturn
    \/ CancelParent

Spec == Init /\ [][Next]_vars

(***************************************************************************)
(* The specification of the encoder on its own; no Run is invoked in it.   *)
(***************************************************************************)
InitCodec ==
    /\ RunIdle
    /\ calls = [c \in CallIds |-> NewCall]
    /\ asserted = NotAsserted
    /\ codec \in {[CodecOff EXCEPT !.pc = "input", !.name = p[1], !.value = p[2],
                                    !.packet = RadiusNewPacket(1, DefaultSecret)] :
                     p \in CodecInputs}

\* addAttribute(packet, attrName, attrValue) on a fresh packet.
CodecEncode ==
    /\ codec.pc = "input"
    /\ LET r == addAttribute(codec.packet, codec.name, codec.value)
       IN  codec' = [codec EXCEPT !.pc = "encoded", !.packet = r.packet, !.err = r.err]
    /\ UNCHANGED <<runVars, calls, asserted>>

\* "Extract common attributes" on a response that carries the packet's
\* attributes.
CodecDecode ==
    /\ codec.pc = "encoded"
    /\ codec' = [codec EXCEPT !.pc = "decoded",
                              !.attrs = <<RadiusResponseAttributes(EchoOf(codec.packet))>>]
    /\ UNCHANGED <<runVars, calls, asserted>>

NextCodec ==
    \/ CodecEncode
    \/ CodecDecode

SpecCodec == InitCodec /\ [][NextCodec]_vars

(***************************************************************************)
(* Concurrent invocations.  Run has a value receiver it never reads and    *)
(* keeps everything in locals; GetDefaultAssertions builds a new value.    *)
(* Every invocation in CallIds runs once, on either executor, interleaved  *)
(* with the others at its exchanges; GetDefaultAssertions is called at any *)
(* time.  The clock is left out: the elapsed time a Run measures is drawn  *)
(* when it returns.                                                        *)
(***************************************************************************)
\* A Run that decodes into a variable of the package: every invocation
\* reads and writes the one config.
DnsLocalConfig_Shared(cs, c, cfg) == [k \in DOMAIN cs |-> [cs[k] EXCEPT !.e = cfg]]

\* "var e Executor" of the DNS Run: the config decoded and defaulted by
\* invocation c is a local of that invocation.
DnsLocalConfig(cs, c, cfg) == [cs EXCEPT ![c].e = cfg]

\* "var e Executor" of the RADIUS Run.
RadiusLocalConfig(cs, c, cfg) == [cs EXCEPT ![c].e = cfg]

\* GetDefaultAssertions that returns no assertion.
DnsGetDefaultAssertions_None == [Assertions |-> <<>>]

\* GetDefaultAssertions of the DNS executor.
DnsGetDefaultAssertions == [Assertions |-> <<"result.err ShouldBeEmpty">>]

\* GetDefaultAssertions of the RADIUS executor.
RadiusGetDefaultAssertions == [Assertions |-> <<"result.err ShouldBeEmpty">>]

\* The descriptors of the concurrent invocations: a few of DnsSteps and of
\* RadiusSteps, different enough to tell one invocation's values from another's.
ConcDnsSteps ==
    {st \in DnsSteps : /\ st.timeout = Absent
                       /\ st.server # StrV("")
                       /\ st.query # Absent
                       /\ st.qtype # StrV("A")}
ConcRadiusSteps ==
    {st \in RadiusSteps : /\ st.timeout = Absent
                          /\ st.server = Absent
                          /\ st.secret = Absent
                          /\ DOMAIN st.attributes \in {{}, {"User-Name"}, {"Invalid-Attribute"}}}

\* What the exchanges of the concurrent invocations return: a response with
\* no error code and no answer, truncated or not, or an error.
ConcDnsOutcomes(m) ==
    {o \in DnsExchangeOutcomes(m, 0, 0) :
        o.err = NoErr => (o.response.Rcode = 0 /\ o.response.Answer = <<>>)}
ConcRadiusOutcomes ==
    {o \in RadiusExchangeOutcomes(0, 0) :
        o.err = NoErr => (o.response.Code = 2 /\ o.response.ReplyMessage = "welcome")}

InitConc ==
    /\ RunIdle
    /\ codec = CodecOff
    /\ calls = [c \in CallIds |-> NewCall]
    /\ asserted = NotAsserted

\* Invocation c of the DNS Run, up to its return or to its UDP exchange.
DnsRunOf(c) ==
    /\ calls[c].pc = "idle"
    /\ \E st \in ConcDnsSteps, el \in 1..MaxCpu :
        LET dec == DnsDecode(st)
            cfg == DnsDefaults(dec.e)
            qt == stringToQType(cfg.QType)
            begun == [calls EXCEPT ![c].exec = "dns", ![c].step = st]
        IN  IF ~dec.ok
            THEN calls' = [begun EXCEPT ![c].ret = HardFailure(dec.err), ![c].pc = "done"]
            ELSE IF DnsServerMissing(dec.e)
            THEN calls' = [DnsLocalConfig(begun, c, dec.e) EXCEPT
                              ![c].ret = HardFailure(ErrServerMandatory), ![c].pc = "done"]
            ELSE IF qt.err # NoErr
            THEN LET res == DnsFailure(DnsNewResult(cfg), qt.err, el)
                 IN  calls' = [DnsLocalConfig(begun, c, cfg) EXCEPT
                                  ![c].result = res, ![c].ret = ReturnResult(res),
                                  ![c].elapsed = el, ![c].pc = "done"]
            ELSE calls' = [DnsLocalConfig(begun, c, cfg) EXCEPT
                              ![c].result = DnsNewResult(cfg), ![c].pc = "udp"]
    /\ UNCHANGED <<runVars, codec, asserted>>

\* The UDP exchange of invocation c returns.
DnsUdpReturnOf(c) ==
    /\ calls[c].pc = "udp"
    /\ LET me == calls[c]
           m == DnsQuestion(me.e, stringToQType(me.e.QType).v, c)
       IN  \E out \in ConcDnsOutcomes(m), el \in 1..MaxCpu :
            IF out.err # NoErr
            THEN LET res == DnsFailure(me.result, out.err, el)
                 IN  calls' = [calls EXCEPT ![c].outs = Append(@, out), ![c].result = res,
                                            ![c].ret = ReturnResult(res),
                                            ![c].elapsed = el, ![c].pc = "done"]
            ELSE IF DnsRetriesOverTcp(out.response)
            THEN calls' = [calls EXCEPT ![c].outs = Append(@, out),
                                        ![c].response = out.response,
                                        ![c].rtt = out.rtt, ![c].pc = "tcp"]
            ELSE LET res == DnsAssemble(me.result, me.e, out.response, out.rtt, el)
                 IN  calls' = [calls EXCEPT ![c].outs = Append(@, out),
                                            ![c].response = out.response,
                                            ![c].rtt = out.rtt, ![c].result = res,
                                            ![c].ret = ReturnResult(res),
                                            ![c].elapsed = el, ![c].pc = "done"]
    /\ UNCHANGED <<runVars, codec, asserted>>

\* The TCP retry of invocation c returns.
DnsTcpReturnOf(c) ==
    /\ calls[c].pc = "tcp"
    /\ LET me == calls[c]
           m == DnsQuestion(me.e, stringToQType(me.e.QType).v, c)
       IN  \E out \in ConcDnsOutcomes(m), el \in 1..MaxCpu :
            LET after == DnsAfterRetry(me.result, me.response, me.rtt, out)
                res == DnsAssemble(after.result, me.e, after.response, after.rtt, el)
            IN  calls' = [calls EXCEPT ![c].outs = Append(@, out),
                                       ![c].response = after.response,
                                       ![c].rtt = after.rtt, ![c].result = res,
                                       ![c].ret = ReturnResult(res),
                                       ![c].elapsed = el, ![c].pc = "done"]
    /\ UNCHANGED <<runVars, codec, asserted>>

\* Invocation c of the RADIUS Run, up to its return or to its exchange.
RadiusRunOf(c) ==
    /\ calls[c].pc = "idle"
    /\ \E st \in ConcRadiusSteps :
        LET dec == RadiusDecode(st)
            cfg == RadiusDefaults(dec.e)
            code == ParseCode(cfg.Code)
            begun == [calls EXCEPT ![c].exec = "radius", ![c].step = st]
        IN  IF ~dec.ok
            THEN calls' = [begun EXCEPT ![c].ret = HardFailure(dec.err), ![c].pc = "done"]
            ELSE IF ~code.ok
            THEN calls' = [RadiusLocalConfig(begun, c, cfg) EXCEPT
                              ![c].result = RadiusNewResult,
                              ![c].ret = RadiusUnsupportedCode(cfg), ![c].pc = "done"]
            ELSE \E ord \in RangeOrders(cfg.Attributes) :
                 LET enc == AddAttributes(RadiusNewPacket(code.code, cfg.Secret),
                                          cfg.Attributes, ord)
                     failed == RadiusAttributeFailure(RadiusNewResult, enc.name, enc.err)
                 IN  IF enc.err # NoErr
                     THEN calls' = [RadiusLocalConfig(begun, c, cfg) EXCEPT
                                       ![c].ord = ord, ![c].result = failed,
                                       ![c].ret = ReturnResult(failed), ![c].pc = "done"]
                     ELSE calls' = [RadiusLocalConfig(begun, c, cfg) EXCEPT
                                       ![c].ord = ord,
                                       ![c].result = [RadiusNewResult EXCEPT
                                                         !.Request = RadiusRequest(cfg)],
                                       ![c].pc = "xchg"]
    /\ UNCHANGED <<runVars, codec, asserted>>

\* radius.Exchange of invocation c returns.
RadiusExchangeReturnOf(c) ==
    /\ calls[c].pc = "xchg"
    /\ \E out \in ConcRadiusOutcomes, el \in 1..MaxCpu :
        LET res == IF out.err # NoErr
                   THEN RadiusExchangeFailure(calls[c].result, out.err, el)
                   ELSE RadiusAssemble(calls[c].result, out.response, el)
        IN  calls' = [calls EXCEPT ![c].outs = Append(@, out), ![c].result = res,
                                   ![c].ret = ReturnResult(res),
                                   ![c].elapsed = el, ![c].pc = "done"]
    /\ UNCHANGED <<runVars, codec, asserted>>

\* A call of GetDefaultAssertions of the DNS executor.
DnsDefaultAssertions ==
    /\ asserted' = [exec |-> "dns", value |-> <<DnsGetDefaultAssertions>>]
    /\ UNCHANGED <<runVars, codec, calls>>

\* A call of GetDefaultAssertions of the RADIUS executor.
RadiusDefaultAssertions ==
    /\ asserted' = [exec |-> "radius", value |-> <<RadiusGetDefaultAssertions>>]
    /\ UNCHANGED <<runVars, codec, calls>>

NextConc ==
    \/ \E c \in CallIds : DnsRunOf(c)
    \/ \E c \in CallIds : DnsUdpReturnOf(c)
    \/ \E c \in CallIds : DnsTcpReturnOf(c)
    \/ \E c \in CallIds : RadiusRunOf(c)
    \/ \E c \in CallIds : RadiusExchangeReturnOf(c)
    \/ DnsDefaultAssertions
    \/ RadiusDefaultAssertions

SpecConc == InitConc /\ [][NextConc]_vars

(***************************************************************************)
(* Vocabulary of the properties                                            *)
(***************************************************************************)
SupportedQTypes == {"A", "AAAA", "MX", "TXT", "CNAME", "NS", "PTR", "SOA", "SRV", "CAA", "ANY"}

IsDns == exec = "dns"
IsRadius == exec = "radius"
Done == pc = "done"

\* The descriptor could not be decoded into the executor's config.
DecodeFailed ==
    \/ IsDns /\ ~DnsDecode(step).ok
    \/ IsRadius /\ ~RadiusDecode(step).ok

\* The descriptor decodes and names no server (DNS).
DnsNoServer == IsDns /\ DnsDecode(step).ok /\ DnsDecode(step).e.Server = ""

\* The descriptor decodes and its code name, after defaulting, is unsupported (RADIUS).
RadiusBadCode ==
    IsRadius /\ RadiusDecode(step).ok
             /\ RadiusDefaults(RadiusDecode(step).e).Code \notin SupportedCodes

\* An attribute that cannot be encoded: unsupported name, unknown enumeration
\* value, or non-numeric value for an integer attribute.
Unencodable(name, value) ==
    \/ name \notin SupportedAttrs
    \/ name \in EnumAttrs /\ ~EnumValue(name, value).ok
    \/ name \in IntAttrs /\ ~Atoi(value).ok

BadAttrs(attrs) == {n \in DOMAIN attrs : Unencodable(n, attrs[n])}

\* The exchanges of the DNS Run, once begun.
HasUdp == IsDns /\ Len(sent) >= 1
HasTcp == IsDns /\ Len(sent) = 2
UdpTruncated == HasUdp /\ sent[1].returned /\ sent[1].err = NoErr /\ sent[1].resp.Truncated
TcpReturned == HasTcp /\ sent[2].returned

\* The normalized tree of a DNS response, field by field.
TreeOf(resp) ==
    [id |-> resp.Id, truncated |-> resp.Truncated, rcode |-> RcodeToString(resp.Rcode),
     answer |-> [i \in DOMAIN resp.Answer |-> [value |-> resp.Answer[i]]]]

\* The returned DNS Result reports the response resp, received after rt.
ResultReports(resp, rt) ==
    /\ ret.result # NoResult
    /\ ret.result[1].RCode = RcodeToString(resp.Rcode)
    /\ ret.result[1].Message = <<TreeOf(resp)>>
    /\ ret.result[1].SystemoutJSON = <<TreeOf(resp)>>
    /\ Len(ret.result[1].Systemout) = 1
    /\ ret.result[1].Systemout[1].rcode = RcodeToString(resp.Rcode)
    /\ ret.result[1].Systemout[1].answers = resp.Answer
    /\ ret.result[1].Systemout[1].rtt = rt

\* A protocol-level, network-level or semantic failure happened in this Run.
SoftFailureHappened ==
    \/ \E i \in DOMAIN sent : sent[i].returned /\ sent[i].err # NoErr
    \/ IsDns /\ e.QType \notin SupportedQTypes
    \/ IsDns /\ TcpReturned /\ sent[2].err = NoErr /\ sent[2].resp.Truncated
    \/ IsRadius /\ BadAttrs(e.Attributes) # {}

(***************************************************************************)
(* C1.  As claimed: Run returns a non-nil error only when the descriptor   *)
(* cannot be decoded.  This fails on the code.                             *)
(***************************************************************************)
C1_ErrorOnlyOnDecodeFailure == (Done /\ ret.err # NoErr) => DecodeFailed

(***************************************************************************)
(* C1, amended.  Run returns a non-nil error (and no Result) exactly when  *)
(* the descriptor cannot be decoded, the DNS server is missing, or the     *)
(* RADIUS code name is unsupported; every other failure ends with a nil    *)
(* error and a Result whose Err is not empty.                              *)
(***************************************************************************)
C1_HardFailuresAreDecodeServerCode ==
    Done =>
        /\ (ret.err # NoErr) <=> (DecodeFailed \/ DnsNoServer \/ RadiusBadCode)
        /\ (ret.err # NoErr) => ret.result = NoResult
        /\ (ret.err = NoErr) =>
              /\ ret.result # NoResult
              /\ SoftFailureHappened => ret.result[1].Err # NoErr

C1_Witness ==
    /\ Done /\ ret.err = NoErr
    /\ Len(sent) = 1 /\ sent[1].err = ErrDeadline
    /\ ret.result[1].Err = ErrDeadline

(***************************************************************************)
(* C2.  A truncated UDP response is followed by exactly one TCP exchange   *)
(* of the same question with the same server; when that exchange returns   *)
(* without error and untruncated, the Result reports the TCP response and  *)
(* its round-trip time, with an empty Err.                                 *)
(***************************************************************************)
C2_CleanTcpRetryReplacesUdp ==
    UdpTruncated =>
        /\ Len(sent) = 2
        /\ sent[2].net = "tcp" /\ sent[1].net = "udp"
        /\ sent[2].server = sent[1].server
        /\ sent[2].msg.Name = sent[1].msg.Name
        /\ sent[2].msg.Qtype = sent[1].msg.Qtype
        /\ sent[2].msg.RecursionDesired = sent[1].msg.RecursionDesired
        /\ (Done /\ sent[2].err = NoErr /\ ~sent[2].resp.Truncated) =>
              /\ ret.err = NoErr
              /\ ResultReports(sent[2].resp, sent[2].t1 - sent[2].t0)
              /\ ret.result[1].Err = NoErr

C2_Witness ==
    /\ Done /\ UdpTruncated /\ TcpReturned
    /\ sent[2].err = NoErr /\ ~sent[2].resp.Truncated
    /\ sent[2].resp.Rcode # sent[1].resp.Rcode
    /\ sent[2].resp.Answer # sent[1].resp.Answer
    /\ sent[2].resp.Id # sent[1].resp.Id
    /\ sent[2].t1 - sent[2].t0 # sent[1].t1 - sent[1].t0
    /\ ret.result[1].RCode = RcodeToString(sent[2].resp.Rcode)

(***************************************************************************)
(* C3.  As claimed: when the UDP response is truncated and the TCP retry   *)
(* returns without error but truncated, Result.Err notes the anomaly and   *)
(* the Result reports the TCP response.  The code reports the UDP one.     *)
(***************************************************************************)
C3_TruncatedTcpRetryIsUsed ==
    (Done /\ UdpTruncated /\ TcpReturned /\ sent[2].err = NoErr /\ sent[2].resp.Truncated) =>
        /\ ret.result[1].Err # NoErr
        /\ ResultReports(sent[2].resp, sent[2].t1 - sent[2].t0)

(***************************************************************************)
(* C4.  When the UDP response is truncated and the TCP retry fails, Run    *)
(* returns a nil error and a Result that reports the truncated UDP         *)
(* response, with an Err that tells of the truncation and carries the      *)
(* retry's error.                                                          *)
(***************************************************************************)
C4_FailedTcpRetryKeepsUdp ==
    (Done /\ UdpTruncated /\ TcpReturned /\ sent[2].err # NoErr) =>
        /\ ret.err = NoErr
        /\ ResultReports(sent[1].resp, sent[1].t1 - sent[1].t0)
        /\ ret.result[1].Message[1].truncated
        /\ ret.result[1].Err = <<"UDP response truncated, TCP retry failed: ">> \o sent[2].err

C4_Witness ==
    /\ Done /\ UdpTruncated /\ TcpReturned
    /\ sent[2].err = ErrNetwork
    /\ sent[1].resp.Rcode = 3 /\ sent[1].resp.Answer # <<>>
    /\ ret.result[1].RCode = "NXDOMAIN"
    /\ ret.result[1].Err = <<"UDP response truncated, TCP retry failed: ">> \o ErrNetwork

(***************************************************************************)
(* C5.  The UDP exchange and the TCP retry of a DNS Run have one and the   *)
(* same deadline, the time the context was made plus the configured        *)
(* timeout: the retry has the time that remains after the UDP exchange,    *)
(* both exchanges return within the one window, and a retry the deadline   *)
(* ends is reported as a failed retry.                                     *)
(***************************************************************************)
C5_OneDeadlineForBothExchanges ==
    IsDns =>
        \A i \in DOMAIN sent :
            /\ sent[i].deadline = sent[1].t0 + e.Timeout
            /\ sent[1].t0 <= sent[i].t0
            /\ sent[i].t0 <= sent[i].t1
            /\ sent[i].t1 <= sent[1].t0 + e.Timeout
            /\ i = 2 =>
                  /\ sent[2].t0 = sent[1].t1
                  /\ sent[2].deadline - sent[2].t0 = e.Timeout - (sent[1].t1 - sent[1].t0)
                  /\ (sent[1].t1 - sent[1].t0) + (sent[2].t1 - sent[2].t0) <= e.Timeout
                  /\ (Done /\ sent[2].err = ErrDeadline) =>
                        /\ sent[2].t1 = sent[1].t0 + e.Timeout
                        /\ ret.result[1].Err =
                              <<"UDP response truncated, TCP retry failed: ">> \o ErrDeadline

C5_Witness ==
    /\ Done /\ HasTcp
    /\ sent[1].t1 > sent[1].t0
    /\ sent[2].err = ErrDeadline
    /\ sent[2].t1 = sent[1].t0 + e.Timeout
    /\ sent[2].t1 - sent[2].t0 < e.Timeout

(***************************************************************************)
(* C6.  As claimed: every Run that returns a Result has recorded the       *)
(* elapsed time in Result.TimeSeconds.  The RADIUS Run returns without it  *)
(* when an attribute cannot be encoded.                                    *)
(***************************************************************************)
C6_ElapsedTimeAlwaysRecorded ==
    (Done /\ ret.err = NoErr) => ret.result[1].TimeSeconds > 0

(***************************************************************************)
(* C7.  As claimed: every RADIUS Run that returns a Result has the         *)
(* resolved request (server, code, attributes) in Result.Request.  The     *)
(* code returns without it when an attribute cannot be encoded.            *)
(***************************************************************************)
C7_RequestAlwaysRecorded ==
    (Done /\ IsRadius /\ ret.err = NoErr) =>
        ret.result[1].Request =
            <<[server |-> e.Server, code |-> e.Code, attributes |-> e.Attributes]>>

(***************************************************************************)
(* C8.  As claimed: a RADIUS Run whose attribute map holds an attribute    *)
(* that cannot be encoded always returns a nil error and a Result whose    *)
(* Err names such an attribute, and exchanges nothing (stated for the      *)
(* descriptors that decode).  This fails when the code name is             *)
(* unsupported: the Run ends before the encoding.                          *)
(***************************************************************************)
C8_BadAttributeIsSoftFailure ==
    (Done /\ IsRadius /\ ~DecodeFailed /\ BadAttrs(step.attributes) # {}) =>
        /\ ret.err = NoErr
        /\ ret.result # NoResult
        /\ Len(ret.result[1].Err) >= 2
        /\ ret.result[1].Err[2] \in BadAttrs(step.attributes)
        /\ sent = <<>>

(***************************************************************************)
(* C8, amended.  A RADIUS Run whose descriptor decodes, whose code name is *)
(* supported (or defaulted) and whose attribute map holds an attribute     *)
(* that cannot be encoded returns a nil error and a Result whose Err       *)
(* names such an attribute with the encoder's message, and exchanges       *)
(* nothing.                                                                *)
(***************************************************************************)
C8_BadAttributeAfterValidCode ==
    (IsRadius /\ ~DecodeFailed /\ ~RadiusBadCode /\ BadAttrs(step.attributes) # {}) =>
        /\ Done
        /\ ret.err = NoErr
        /\ ret.result # NoResult
        /\ \E n \in BadAttrs(step.attributes) :
              /\ ret.result[1].Err[1] = "failed to add attribute "
              /\ ret.result[1].Err[2] = n
              /\ n \in {ret.result[1].Err[i] : i \in 4..Len(ret.result[1].Err)}
                 \/ step.attributes[n] \in {ret.result[1].Err[i] : i \in 4..Len(ret.result[1].Err)}
        /\ sent = <<>>

C8_Witness ==
    /\ Done /\ IsRadius /\ ret.err = NoErr
    /\ Cardinality(DOMAIN step.attributes) = 2
    /\ Cardinality(BadAttrs(step.attributes)) = 1
    /\ ret.result[1].Err[2] \in BadAttrs(step.attributes)
    /\ sent = <<>>

(***************************************************************************)
(* C9.  A RADIUS Run whose code name is given and is none of the 14        *)
(* supported names returns a non-nil error and no Result and exchanges     *)
(* nothing, whatever the other fields of the descriptor are.               *)
(***************************************************************************)
C9_UnsupportedCodeIsHardFailure ==
    (IsRadius /\ step.code.t = "string" /\ step.code.s \notin SupportedCodes \cup {""}) =>
        /\ Done
        /\ ret.err # NoErr
        /\ ret.result = NoResult
        /\ sent = <<>>

C9_Witness ==
    /\ Done /\ IsRadius
    /\ step.code = StrV("Invalid-Code")
    /\ ~DecodeFailed
    /\ BadAttrs(step.attributes) # {}
    /\ ret.err = <<"unsupported RADIUS code: ", "Invalid-Code">>
    /\ ret.result = NoResult

(***************************************************************************)
(* C10.  A DNS Run whose descriptor has no server (omitted or empty)       *)
(* returns the error "server is mandatory for DNS executor" and no Result  *)
(* and exchanges nothing, whatever strings query and qtype and whatever    *)
(* number timeout are.                                                     *)
(***************************************************************************)
C10_MissingServerIsHardFailure ==
    (IsDns /\ step.server \in {Absent, StrV("")}
           /\ step.query.t \in {"absent", "string"}
           /\ step.qtype.t \in {"absent", "string"}
           /\ step.timeout.t \in {"absent", "int"}) =>
        /\ Done
        /\ ret.err = ErrServerMandatory
        /\ ret.result = NoResult
        /\ sent = <<>>

C10_Witness ==
    /\ Done /\ IsDns
    /\ step.server = Absent
    /\ step.qtype = StrV("INVALID")
    /\ ret.err = ErrServerMandatory
    /\ ret.result = NoResult

(***************************************************************************)
(* C11.  A DNS Run whose descriptor decodes, names a server and gives a    *)
(* record type outside the 11 supported names returns a nil error and a    *)
(* Result whose Err names the unsupported type; it exchanges nothing, and  *)
(* the Result echoes the query, the record type and the server as given.   *)
(***************************************************************************)
C11_UnsupportedQTypeIsSoftFailure ==
    (IsDns /\ ~DecodeFailed /\ ~DnsNoServer
           /\ step.qtype.t = "string" /\ step.qtype.s \notin SupportedQTypes \cup {""}) =>
        /\ Done
        /\ ret.err = NoErr
        /\ ret.result # NoResult
        /\ ret.result[1].Err = <<"unsupported DNS record type: ", step.qtype.s>>
        /\ sent = <<>>
        /\ ret.result[1].Query = step.query.s
        /\ ret.result[1].QType = step.qtype.s
        /\ ret.result[1].Server = step.server.s

C11_Witness ==
    /\ Done /\ IsDns
    /\ step.server = StrV("8.8.8.8:53")
    /\ step.query = StrV("example.com")
    /\ step.qtype = StrV("INVALID")
    /\ ret.err = NoErr
    /\ ret.result[1].Err = <<"unsupported DNS record type: ", "INVALID">>
    /\ ret.result[1].QType = "INVALID"
    /\ sent = <<>>

\* The value of a descriptor's field after defaulting: the one given when it
\* is not the zero value, the default otherwise.
GivenString(v, default) == IF v.t = "string" /\ v.s # "" THEN v.s ELSE default
GivenInt(v, default) == IF v.t = "int" /\ v.n # 0 THEN v.n ELSE default

(***************************************************************************)
(* C12.  Omitted fields get their defaults before anything uses them, and  *)
(* a field given with a non-zero value is never overwritten.  DNS: qtype   *)
(* "A" and timeout 5, and the Result echoes the defaulted qtype.  RADIUS:  *)
(* server "localhost:1812", secret "secret", code "Access-Request",        *)
(* timeout 5.  The exchange is made with the defaulted values.             *)
(***************************************************************************)
C12_DefaultsApplied ==
    /\ (IsDns /\ ~DecodeFailed /\ ~DnsNoServer) =>
          /\ e.Server = step.server.s
          /\ e.Query = step.query.s
          /\ e.QType = GivenString(step.qtype, "A")
          /\ e.Timeout = GivenInt(step.timeout, 5)
          /\ result.QType = e.QType
          /\ Done => ret.result[1].QType = e.QType
          /\ sent # <<>> =>
                /\ sent[1].msg.Qtype = stringToQType(e.QType).v
                /\ sent[1].server = e.Server
                /\ sent[1].deadline = sent[1].t0 + e.Timeout
    /\ (IsRadius /\ ~DecodeFailed) =>
          /\ e.Server = GivenString(step.server, "localhost:1812")
          /\ e.Secret = GivenString(step.secret, "secret")
          /\ e.Code = GivenString(step.code, "Access-Request")
          /\ e.Timeout = GivenInt(step.timeout, 5)
          /\ e.Attributes = step.attributes
          /\ sent # <<>> =>
                /\ sent[1].server = e.Server
                /\ sent[1].msg.Secret = e.Secret
                /\ sent[1].msg.Code = ParseCode(e.Code).code
                /\ sent[1].deadline = sent[1].t0 + e.Timeout
                /\ result.Request[1].server = e.Server
                /\ result.Request[1].code = e.Code

C12_Witness ==
    /\ Done /\ IsRadius
    /\ step.server = StrV("radius.example:1812") /\ step.secret = Absent
    /\ step.code = Absent /\ step.timeout = Absent
    /\ Len(sent) = 1
    /\ sent[1].server = "radius.example:1812"
    /\ sent[1].msg.Secret = "secret"
    /\ sent[1].msg.Code = 1
    /\ sent[1].err = ErrDeadline /\ sent[1].t1 = sent[1].t0 + 5
    /\ ret.result[1].Request[1].code = "Access-Request"

C17_MissingQueryIsRejected ==
    (IsDns /\ ~DecodeFailed /\ ~DnsNoServer /\ step.query \in {Absent, StrV("")}) =>
        /\ Done
        /\ ret.err # NoErr \/ ret.result[1].Err # NoErr
        /\ sent = <<>>

\* Dotted-decimal notation (net.ParseIP of an IPv4 text): four decimal
\* numbers of one to three digits, each at most 255, separated by dots, and
\* the four bytes they denote.
RECURSIVE SplitDots(_, _, _)
SplitDots(bs, cur, acc) ==
    IF bs = <<>> THEN Append(acc, cur)
    ELSE IF Head(bs) = 46 THEN SplitDots(Tail(bs), <<>>, Append(acc, cur))
    ELSE SplitDots(Tail(bs), Append(cur, Head(bs)), acc)

DottedDecimal(s) ==
    LET parts == SplitDots(Bytes(s), <<>>, <<>>)
        ok == /\ Len(parts) = 4
              /\ \A i \in DOMAIN parts :
                    /\ Len(parts[i]) \in 1..3
                    /\ \A j \in DOMAIN parts[i] : parts[i][j] \in 48..57
                    /\ ParseDigits(parts[i], 0) <= 255
    IN  [ok |-> ok,
         ip |-> IF ok THEN [i \in 1..4 |-> ParseDigits(parts[i], 0)] ELSE <<>>]

\* The attributes whose value is an IPv4 address.
IPv4Attrs == {"NAS-IP-Address", "Framed-IP-Address", "Framed-IP-Netmask"}

(***************************************************************************)
(* C19.  As claimed: an IP-address attribute given in dotted-decimal       *)
(* notation is in the packet Run sends, as the four bytes of the address,  *)
(* and a value that is no address is an encoding failure reported in       *)
(* Result.Err.  The code hands the text's own bytes to the setter and      *)
(* drops the setter's error: "192.168.1.1" is left out of the packet and   *)
(* nothing is reported.                                                    *)
(***************************************************************************)
C19_IPAttributesParsed ==
    (IsRadius /\ ~DecodeFailed /\ ~RadiusBadCode) =>
        \A n \in DOMAIN step.attributes \cap IPv4Attrs :
            IF DottedDecimal(step.attributes[n]).ok
            THEN sent # <<>> =>
                    \E i \in DOMAIN sent[1].msg.Attributes :
                        /\ sent[1].msg.Attributes[i].Type = AttrType(n)
                        /\ sent[1].msg.Attributes[i].B = DottedDecimal(step.attributes[n]).ip
            ELSE /\ sent = <<>>
                 /\ Done => ret.result[1].Err # NoErr

\* The caller cancelled its context while exchange i of the Run was in flight.
CancelledDuring(i) == parent.cancelled /\ parent.during = i

DecodedNames == {"User-Name", "Reply-Message", "Acct-Session-Id"}

\* The pair was encoded: addAttribute returned no error and the packet
\* carries an attribute.
CodecEncoded == codec.pc \in {"encoded", "decoded"} /\ codec.err = NoErr
                    /\ codec.packet.Attributes # <<>>

RfcEnumTable ==
    {<<"Service-Type", "Login-User", 1>>, <<"Service-Type", "Framed-User",
     2>>, <<"Service-Type", "Callback-Login-User", 3>>, <<"Service-Type",
     "Callback-Framed-User", 4>>, <<"Service-Type", "Outbound-User", 5>>,
     <<"Service-Type", "Administrative-User", 6>>, <<"Service-Type",
     "NAS-Prompt-User", 7>>, <<"Service-Type", "Call-Check-User", 10>>,
     <<"Service-Type", "Callback-Administrative-User", 11>>,
     <<"Framed-Protocol", "PPP", 1>>, <<"Framed-Protocol", "SLIP", 2>>,
     <<"Framed-Protocol", "ARAP", 3>>, <<"Framed-Protocol", "Gandalf",
     4>>, <<"Framed-Protocol", "Xylogics", 5>>, <<"Framed-Protocol",
     "X.75-Synchronous", 6>>,
     <<"Framed-Routing", "None", 0>>, <<"Framed-Routing", "Broadcast",
     1>>, <<"Framed-Routing", "Listen", 2>>, <<"Framed-Routing",
     "Broadcast-Listen", 3>>,
     <<"Termination-Action", "Default", 0>>, <<"Termination-Action",
     "RADIUS-Request", 1>>,
     <<"Acct-Status-Type", "Start", 1>>, <<"Acct-Status-Type", "Stop",
     2>>, <<"Acct-Status-Type", "Interim-Update", 3>>,
     <<"Acct-Status-Type", "Accounting-On", 7>>, <<"Acct-Status-Type",
     "Accounting-Off", 8>>,
     <<"Acct-Authentic", "RADIUS", 1>>, <<"Acct-Authentic", "Local", 2>>,
     <<"Acct-Authentic", "Remote", 3>>,
     <<"Acct-Terminate-Cause", "User-Request", 1>>,
     <<"Acct-Terminate-Cause", "Lost-Carrier", 2>>,
     <<"Acct-Terminate-Cause", "Lost-Service", 3>>,
     <<"Acct-Terminate-Cause", "Idle-Timeout", 4>>,
     <<"Acct-Terminate-Cause", "Session-Timeout", 5>>,
     <<"Acct-Terminate-Cause", "Admin-Reset", 6>>,
     <<"Acct-Terminate-Cause", "Admin-Reboot", 7>>,
     <<"Acct-Terminate-Cause", "Port-Error", 8>>,
     <<"Acct-Terminate-Cause", "NAS-Error", 9>>, <<"Acct-Terminate-Cause",
     "NAS-Request", 10>>, <<"Acct-Terminate-Cause", "NAS-Reboot", 11>>,
     <<"Acct-Terminate-Cause", "Port-Unneeded", 12>>,
     <<"Acct-Terminate-Cause", "Port-Preempted", 13>>,
     <<"Acct-Terminate-Cause", "Port-Suspended", 14>>,
     <<"Acct-Terminate-Cause", "Service-Unavailable", 15>>,
     <<"Acct-Terminate-Cause", "Callback", 16>>, <<"Acct-Terminate-Cause",
     "User-Error", 17>>, <<"Acct-Terminate-Cause", "Host-Request", 18>>}

(***************************************************************************)
(* C20.  As claimed: every enumeration name is encoded as the number RFC   *)
(* 2865 or RFC 2866 assigns to it, and within an enumeration distinct      *)
(* names get distinct numbers.  The code encodes the Service-Type values   *)
(* Call-Check-User and Callback-Administrative-User as 8 and 9; the RFC's  *)
(* numbers are 10 and 11.                                                  *)
(***************************************************************************)
C20_EnumerationsFollowRfc ==
    /\ (CodecEncoded /\ codec.name \in EnumAttrs) =>
          \E t \in RfcEnumTable :
              /\ t[1] = codec.name /\ t[2] = codec.value
              /\ codec.packet.Attributes[1].Type = AttrType(codec.name)
              /\ codec.packet.Attributes[1].N = Uint32(t[3])
    /\ \A n \in EnumAttrs : \A v, w \in EnumNames(n) :
          v # w => EnumValue(n, v).v # EnumValue(n, w).v

\* What an invocation returns when it runs alone on the descriptor st and
\* its exchanges return outs, in this order, and the elapsed time it
\* measures is el: Run, read from top to bottom.
DnsAlone(st, outs, el) ==
    LET dec == DnsDecode(st)
        cfg == DnsDefaults(dec.e)
        qt == stringToQType(cfg.QType)
        res == DnsNewResult(cfg)
    IN  IF ~dec.ok THEN HardFailure(dec.err)
        ELSE IF DnsServerMissing(dec.e) THEN HardFailure(ErrServerMandatory)
        ELSE IF qt.err # NoErr THEN ReturnResult(DnsFailure(res, qt.err, el))
        ELSE IF outs[1].err # NoErr THEN ReturnResult(DnsFailure(res, outs[1].err, el))
        ELSE IF DnsRetriesOverTcp(outs[1].response)
        THEN LET after == DnsAfterRetry(res, outs[1].response, outs[1].rtt, outs[2])
             IN  ReturnResult(DnsAssemble(after.result, cfg, after.response, after.rtt, el))
        ELSE ReturnResult(DnsAssemble(res, cfg, outs[1].response, outs[1].rtt, el))

RadiusAlone(st, ord, outs, el) ==
    LET dec == RadiusDecode(st)
        cfg == RadiusDefaults(dec.e)
        code == ParseCode(cfg.Code)
        enc == AddAttributes(RadiusNewPacket(code.code, cfg.Secret), cfg.Attributes, ord)
        res == [RadiusNewResult EXCEPT !.Request = RadiusRequest(cfg)]
    IN  IF ~dec.ok THEN HardFailure(dec.err)
        ELSE IF ~code.ok THEN RadiusUnsupportedCode(cfg)
        ELSE IF enc.err # NoErr
        THEN ReturnResult(RadiusAttributeFailure(RadiusNewResult, enc.name, enc.err))
        ELSE IF outs[1].err # NoErr
        THEN ReturnResult(RadiusExchangeFailure(res, outs[1].err, el))
        ELSE ReturnResult(RadiusAssemble(res, outs[1].response, el))

Alone(me) ==
    IF me.exec = "dns" THEN DnsAlone(me.step, me.outs, me.elapsed)
    ELSE RadiusAlone(me.step, me.ord, me.outs, me.elapsed)

(***************************************************************************)
(* C14.  Invocations of Run share no state: whatever the interleaving of   *)
(* the concurrent invocations, of one executor or of both, what each       *)
(* returns is what it returns when it runs alone on its own descriptor     *)
(* with the outcomes of its own exchanges, and the config it works with    *)
(* is the one decoded from its own descriptor.                             *)
(***************************************************************************)
C14_InvocationsAreIndependent ==
    \A c \in CallIds :
        /\ calls[c].pc = "done" => calls[c].ret = Alone(calls[c])
        /\ (calls[c].exec = "dns" /\ calls[c].e # NoVal) =>
              calls[c].e \in {DnsDecode(calls[c].step).e,
                              DnsDefaults(DnsDecode(calls[c].step).e)}
        /\ (calls[c].exec = "radius" /\ calls[c].e # NoVal) =>
              calls[c].e = RadiusDefaults(RadiusDecode(calls[c].step).e)

C14_Witness ==
    /\ calls[1].pc = "done" /\ calls[2].pc = "done"
    /\ calls[1].exec = "dns" /\ calls[2].exec = "dns"
    /\ calls[1].step.query # calls[2].step.query
    /\ Len(calls[1].outs) = 2 /\ Len(calls[2].outs) = 1
    /\ calls[2].outs[1].err = NoErr
    /\ calls[1].ret.result[1].Systemout[1].query = "example.com"
    /\ calls[2].ret.result[1].Systemout[1].query = "host.example.org."
    /\ calls[2].ret.result[1].Err = NoErr

(***************************************************************************)
(* C18.  Every call of GetDefaultAssertions, of either executor, returns   *)
(* exactly the one assertion "result.err ShouldBeEmpty", whatever Runs     *)
(* have returned or are in flight, and changes nothing else: no            *)
(* invocation of Run sees a difference.                                    *)
(***************************************************************************)
C18_DefaultAssertionsFixed ==
    [][(asserted' # asserted) =>
          /\ asserted'.exec \in {"dns", "radius"}
          /\ asserted'.value = <<[Assertions |-> <<"result.err ShouldBeEmpty">>]>>
          /\ UNCHANGED <<runVars, codec, calls>>]_vars

C18_Witness ==
    /\ asserted.exec = "dns"
    /\ asserted.value[1].Assertions = <<"result.err ShouldBeEmpty">>
    /\ calls[1].pc = "tcp"
    /\ calls[2].pc = "done" /\ calls[2].exec = "radius"
    /\ calls[2].ret.err # NoErr

(***************************************************************************)
(* C21.  In every Result a DNS Run returns, a normalized message whose     *)
(* truncated flag is set comes with an Err that is not empty; put the      *)
(* other way, a Result with an empty Err and a message reports a response  *)
(* that was received untruncated, the one of the last exchange.            *)
(***************************************************************************)
C21_TruncatedMessageHasErr ==
    (Done /\ IsDns /\ ret.result # NoResult /\ ret.result[1].Message # NoVal) =>
        /\ ret.result[1].Message[1].truncated => ret.result[1].Err # NoErr
        /\ ret.result[1].Err = NoErr =>
              /\ ~ret.result[1].Message[1].truncated
              /\ sent[Len(sent)].returned /\ sent[Len(sent)].err = NoErr
              /\ ~sent[Len(sent)].resp.Truncated
              /\ ret.result[1].Message = <<TreeOf(sent[Len(sent)].resp)>>

C21_Witness ==
    /\ Done /\ IsDns /\ ret.err = NoErr
    /\ UdpTruncated /\ TcpReturned
    /\ sent[2].err = NoErr /\ sent[2].resp.Truncated
    /\ ret.result[1].Message[1].truncated
    /\ ret.result[1].Err =
          <<"UDP response truncated, TCP retry also returned truncated response">>

====
